---- MODULE Spec2Model ----
(***************************************************************************)
(* Model of parser_FIX.py: main() downloads secdef.DAT, parse_secdef_file  *)
(* scans it line by line and field by field, accumulating the module-level *)
(* dictionaries d167, d462 and dNameExpiration, and print_solution1..3     *)
(* render them.                                                            *)
(*                                                                         *)
(* A Python str is modelled as a sequence of one-character strings, so     *)
(* str.split, str equality and str ordering are computed, not assumed.     *)
(***************************************************************************)
EXTENDS Integers, Sequences, FiniteSets, TLC

(* ---------------- bounds ---------------- *)

\* number of lines of secdef.DAT
MaxRecords == 2
\* number of entries of dNameExpiration handed to print_solution3 in SpecQ3
MaxEntries == 5
\* number of lines of secdef.DAT in SpecFutures
MaxFutures == 3
\* number of calls of parse_secdef_file in SpecTwice
MaxCalls == 2

(* ---------------- program constants (lines 44-51) ---------------- *)

SOH == "SOH"
NL == "\n"
EQ == "="
SECURITY_TYPE_TAG == <<"1", "6", "7">>
FUTURES == <<"F", "U", "T">>
UNDERLYING_PRODUCT_TAG == <<"4", "6", "2">>
ASSET_GE == <<"6", "9", "3", "7", "=", "G", "E">>
NOLEGS_TAG == <<"5", "5", "5">>
NAMES_TAG == <<"5", "5">>
EXPIRATION_TAG == <<"2", "0", "0">>

\* keys seeded into d167 (lines 54-59) and d462 (lines 62-70)
SecurityTypes ==
  { <<"F", "U", "T">>, <<"O", "O", "F">>, <<"M", "L", "E", "G">>,
    <<"I", "R", "S">>, <<"F", "X", "S", "P", "O", "T">> }
ProductComplexes ==
  { <<"2">>, <<"4">>, <<"5">>, <<"1", "2">>, <<"1", "4">>, <<"1", "5">>,
    <<"1", "6">>, <<"1", "7">> }

\* slice of sortedExpirationName printed by print_solution3 (line 191)
TopN == 4

\* a local name that has not been assigned yet
Unbound == <<"<unbound>">>

(* ---------------- Python str operations ---------------- *)

\* code points of the characters that occur in the model
Ord ==
  [c \in {SOH, NL, "0", "1", "2", "3", "4", "5", "6", "7", "8", "9", "=",
          "E", "F", "G", "H", "I", "M", "O", "R", "S", "T", "U", "X", "Y", "Z"} |->
     CASE c = SOH -> 1   [] c = NL -> 10
       [] c = "0" -> 48  [] c = "1" -> 49  [] c = "2" -> 50  [] c = "3" -> 51
       [] c = "4" -> 52  [] c = "5" -> 53  [] c = "6" -> 54  [] c = "7" -> 55
       [] c = "8" -> 56  [] c = "9" -> 57  [] c = "=" -> 61
       [] c = "E" -> 69  [] c = "F" -> 70  [] c = "G" -> 71  [] c = "H" -> 72
       [] c = "I" -> 73  [] c = "M" -> 77  [] c = "O" -> 79  [] c = "R" -> 82
       [] c = "S" -> 83  [] c = "T" -> 84  [] c = "U" -> 85  [] c = "X" -> 88
       [] c = "Y" -> 89  [] c = "Z" -> 90]

\* a < b for Python str: lexicographic by code point, a proper prefix is smaller
RECURSIVE StrLess(_, _)
StrLess(a, b) ==
  IF b = <<>> THEN FALSE
  ELSE IF a = <<>> THEN TRUE
  ELSE IF Ord[Head(a)] # Ord[Head(b)] THEN Ord[Head(a)] < Ord[Head(b)]
  ELSE StrLess(Tail(a), Tail(b))

\* s.split(sep) for a one-character separator: n separators give n+1 parts
RECURSIVE SplitAcc(_, _, _, _)
SplitAcc(s, sep, cur, acc) ==
  IF s = <<>> THEN Append(acc, cur)
  ELSE IF Head(s) = sep THEN SplitAcc(Tail(s), sep, <<>>, Append(acc, cur))
  ELSE SplitAcc(Tail(s), sep, Append(cur, Head(s)), acc)

Split(s, sep) == SplitAcc(s, sep, <<>>, <<>>)

\* data.split('=')[0]
Tag(data) == Split(data, EQ)[1]
\* whether data.split('=')[1] exists (otherwise it raises IndexError)
HasValue(data) == Len(Split(data, EQ)) >= 2
\* data.split('=')[1]
Value(data) == Split(data, EQ)[2]

(* ---------------- the feed ---------------- *)

RECURSIVE Cat(_)
Cat(ss) == IF ss = <<>> THEN <<>> ELSE Head(ss) \o Cat(Tail(ss))

Field(tag, val) == tag \o <<EQ>> \o val

\* a line as CME writes it: every field is followed by SOH, then the line ends
Rec(fields) == Cat([i \in 1..Len(fields) |-> fields[i] \o <<SOH>>]) \o <<NL>>
\* a line whose last field is directly followed by the line terminator
RecBare(fields) ==
  Cat([i \in 1..Len(fields) |->
         IF i < Len(fields) THEN fields[i] \o <<SOH>> ELSE fields[i]]) \o <<NL>>

fFUT == Field(SECURITY_TYPE_TAG, FUTURES)
fIRS == Field(SECURITY_TYPE_TAG, <<"I", "R", "S">>)
fXYZ == Field(SECURITY_TYPE_TAG, <<"X", "Y", "Z">>)
f14 == Field(UNDERLYING_PRODUCT_TAG, <<"1", "4">>)
f2 == Field(UNDERLYING_PRODUCT_TAG, <<"2">>)
f99 == Field(UNDERLYING_PRODUCT_TAG, <<"9", "9">>)
fGE == ASSET_GE
fLegs0 == Field(NOLEGS_TAG, <<"0">>)
fLegs1 == Field(NOLEGS_TAG, <<"1">>)
fLegsE == Field(NOLEGS_TAG, <<>>)
GEH9 == <<"G", "E", "H", "9">>
GEZ8 == <<"G", "E", "Z", "8">>
E201812 == <<"2", "0", "1", "8", "1", "2">>
E201903 == <<"2", "0", "1", "9", "0", "3">>
E201906 == <<"2", "0", "1", "9", "0", "6">>
E3 == <<"3">>
nH9 == Field(NAMES_TAG, GEH9)
nZ8 == Field(NAMES_TAG, GEZ8)
e1903 == Field(EXPIRATION_TAG, E201903)
e1812 == Field(EXPIRATION_TAG, E201812)

\* the lines secdef.DAT is drawn from
Lines ==
  { Rec(<<fFUT, f14, fGE, nH9, e1903>>),
    Rec(<<fFUT, f14, fGE, nH9, e1903, fLegs0>>),
    Rec(<<fLegs1, fFUT, fGE, nZ8, e1812>>),
    Rec(<<fFUT, fGE, fLegsE, nZ8, e1812>>),
    RecBare(<<fFUT, fGE, nZ8, e1812, fLegs0>>),
    Rec(<<fIRS>>),
    Rec(<<fIRS, f14, fGE, nZ8, e1812>>),
    Rec(<<fXYZ, nH9, e1903>>),
    Rec(<<f14, fFUT>>),
    Rec(<<f14>>),
    Rec(<<fFUT, fFUT>>),
    Rec(<<fFUT, f99, fGE, nH9, e1903>>),
    Rec(<<fFUT, NAMES_TAG, f14>>),
    Rec(<<SECURITY_TYPE_TAG>>),
    Rec(<<fFUT, fGE, fGE, nZ8, e1812>>),
    Rec(<<fGE, fFUT, f14, nH9, e1903, fGE>>),
    Rec(<<fGE, fGE, fIRS, fGE, nZ8, e1812>>),
    Rec(<<fFUT, fGE, nZ8, e1812>>),
    Rec(<<fFUT, fGE>>),
    Rec(<<fFUT, nH9, e1812>>),
    Rec(<<fFUT, fGE, nH9, e1812>>),
    RecBare(<<fGE, nZ8, e1812, fFUT>>),
    Rec(<<fFUT, f14, f2>>),
    Rec(<<fFUT, fGE, nH9, nZ8, e1903, e1812>>) }

RECURSIVE SeqsUpTo(_, _)
SeqsUpTo(S, n) ==
  IF n = 0 THEN {<<>>}
  ELSE LET shorter == SeqsUpTo(S, n - 1)
       IN  shorter \cup {Append(s, x) : s \in shorter, x \in S}

Feeds == SeqsUpTo(Lines, MaxRecords)

(* ---------------- dictionaries ---------------- *)

\* dNameExpiration is a Python dict: its items keep the order of first insertion.
\* It is a sequence of <<name, expiration>> pairs with pairwise distinct names.
Keys(d) == {d[i][1] : i \in 1..Len(d)}

\* SetItem that deletes an existing key and inserts it again at the end
SetItemMoveToEnd(d, k, v) ==
  LET kept == {i \in 1..Len(d) : d[i][1] # k}
      Nth(n) == CHOOSE i \in kept : Cardinality({j \in kept : j < i}) = n - 1
  IN  [n \in 1..Cardinality(kept) |-> d[Nth(n)]] \o <<<<k, v>>>>

\* d[k] = v
SetItem(d, k, v) ==
  IF k \in Keys(d)
    THEN [i \in 1..Len(d) |-> IF d[i][1] = k THEN <<k, v>> ELSE d[i]]
    ELSE Append(d, <<k, v>>)

RECURSIVE Total(_)
Total(d) ==
  IF DOMAIN d = {} THEN 0
  ELSE LET k == CHOOSE x \in DOMAIN d : TRUE
       IN  d[k] + Total([x \in DOMAIN d \ {k} |-> d[x]])

(* ---------------- parse_secdef_file: one field, one record ---------------- *)

\* L: the locals of parse_secdef_file; G: the three module-level dictionaries
Locals(f, a, n, u, pcx, nm, ex) ==
  [futures |-> f, assetGE |-> a, nolegs |-> n, underlying_product |-> u,
   product_complex |-> pcx, names |-> nm, expiration |-> ex]

Globals(a, b, c) == [d167 |-> a, d462 |-> b, dNameExpiration |-> c]

Outcome(L, G, e) == [L |-> L, G |-> G, exc |-> e]

\* Scan167 creating the key of a security type it has not seen (setdefault)
Scan167AutoCreate(L, G, data) ==
  IF ~HasValue(data) THEN Outcome(L, G, "IndexError")
  ELSE LET v == Value(data)
           d == [k \in DOMAIN G.d167 \cup {v} |->
                   IF k \in DOMAIN G.d167 THEN G.d167[k] ELSE 0]
       IN  Outcome([L EXCEPT !.futures = @ \/ (v = FUTURES)],
                   [G EXCEPT !.d167 = [d EXCEPT ![v] = @ + 1]], "none")

\* lines 127-130
Scan167(L, G, data) ==
  IF ~HasValue(data) THEN Outcome(L, G, "IndexError")
  ELSE IF Value(data) \notin DOMAIN G.d167 THEN Outcome(L, G, "KeyError")
  ELSE Outcome([L EXCEPT !.futures = @ \/ (Value(data) = FUTURES)],
               [G EXCEPT !.d167[Value(data)] = @ + 1], "none")

\* Scan462 counting the product complex as soon as its field is examined
Scan462Counting(L, G, data) ==
  IF ~HasValue(data)
    THEN Outcome([L EXCEPT !.underlying_product = TRUE], G, "IndexError")
  ELSE IF Value(data) \notin DOMAIN G.d462
    THEN Outcome([L EXCEPT !.underlying_product = TRUE], G, "KeyError")
  ELSE Outcome([L EXCEPT !.underlying_product = TRUE,
                         !.product_complex = Value(data)],
               [G EXCEPT !.d462[Value(data)] = @ + 1], "none")

\* lines 131-133
Scan462(L, G, data) ==
  IF ~HasValue(data)
    THEN Outcome([L EXCEPT !.underlying_product = TRUE], G, "IndexError")
    ELSE Outcome([L EXCEPT !.underlying_product = TRUE,
                           !.product_complex = Value(data)], G, "none")

\* lines 134-135
ScanAssetGE(L, G, data) == Outcome([L EXCEPT !.assetGE = TRUE], G, "none")

\* ScanNoLegs reading the value: NoLegs = 0 is taken as "no legs"
ScanNoLegsByValue(L, G, data) ==
  IF HasValue(data) /\ Value(data) = <<"0">>
    THEN Outcome(L, G, "none")
    ELSE Outcome([L EXCEPT !.nolegs = TRUE], G, "none")

\* lines 136-137
ScanNoLegs(L, G, data) == Outcome([L EXCEPT !.nolegs = TRUE], G, "none")

\* lines 138-139
ScanNames(L, G, data) ==
  IF ~HasValue(data) THEN Outcome(L, G, "IndexError")
  ELSE Outcome([L EXCEPT !.names = Value(data)], G, "none")

\* lines 140-141
ScanExpiration(L, G, data) ==
  IF ~HasValue(data) THEN Outcome(L, G, "IndexError")
  ELSE Outcome([L EXCEPT !.expiration = Value(data)], G, "none")

\* ScanData with the asset flag flipped by every occurrence of the token
ScanDataToggle(L, G, data) ==
  IF Tag(data) = SECURITY_TYPE_TAG THEN Scan167(L, G, data)
  ELSE IF Tag(data) = UNDERLYING_PRODUCT_TAG THEN Scan462(L, G, data)
  ELSE IF data = ASSET_GE
    THEN Outcome([L EXCEPT !.assetGE = ~L.assetGE], G, "none")
  ELSE IF Tag(data) = NOLEGS_TAG THEN ScanNoLegs(L, G, data)
  ELSE IF Tag(data) = NAMES_TAG THEN ScanNames(L, G, data)
  ELSE IF Tag(data) = EXPIRATION_TAG THEN ScanExpiration(L, G, data)
  ELSE Outcome(L, G, "none")

\* the body of "for data in field" (lines 127-141)
ScanData(L, G, data) ==
  IF Tag(data) = SECURITY_TYPE_TAG THEN Scan167(L, G, data)
  ELSE IF Tag(data) = UNDERLYING_PRODUCT_TAG THEN Scan462(L, G, data)
  ELSE IF data = ASSET_GE /\ ~L.assetGE THEN ScanAssetGE(L, G, data)
  ELSE IF Tag(data) = NOLEGS_TAG THEN ScanNoLegs(L, G, data)
  ELSE IF Tag(data) = NAMES_TAG THEN ScanNames(L, G, data)
  ELSE IF Tag(data) = EXPIRATION_TAG THEN ScanExpiration(L, G, data)
  ELSE Outcome(L, G, "none")

\* lines 143-145
Update462(L, G) ==
  IF ~L.underlying_product THEN Outcome(L, G, "none")
  ELSE IF L.product_complex = Unbound THEN Outcome(L, G, "UnboundLocalError")
  ELSE IF L.product_complex \notin DOMAIN G.d462 THEN Outcome(L, G, "KeyError")
  ELSE Outcome(L, [G EXCEPT !.d462[L.product_complex] = @ + 1], "none")

\* lines 146-147
UpdateNameExpiration(L, G) ==
  IF ~(L.assetGE /\ ~L.nolegs) THEN Outcome(L, G, "none")
  ELSE IF L.expiration = Unbound \/ L.names = Unbound
    THEN Outcome(L, G, "UnboundLocalError")
  ELSE Outcome(L, [G EXCEPT !.dNameExpiration =
                     SetItem(@, L.names, L.expiration)], "none")

\* UpdateRecord writing the name before it counts the product complex
UpdateRecordNameFirst(L, G) ==
  IF ~L.futures THEN Outcome(L, G, "none")
  ELSE LET r == UpdateNameExpiration(L, G)
       IN  IF r.exc # "none" THEN r ELSE Update462(r.L, r.G)

\* the statements after the field loop (lines 142-147)
UpdateRecord(L, G) ==
  IF ~L.futures THEN Outcome(L, G, "none")
  ELSE LET r == Update462(L, G)
       IN  IF r.exc # "none" THEN r ELSE UpdateNameExpiration(r.L, r.G)

\* StartRecord leaving the futures flag of the line before
StartRecordKeepFutures(L) ==
  [L EXCEPT !.assetGE = FALSE, !.nolegs = FALSE, !.underlying_product = FALSE]

\* lines 121-125: the flags are reset for every line, the value locals are not
StartRecord(L) ==
  [L EXCEPT !.futures = FALSE, !.assetGE = FALSE, !.nolegs = FALSE,
            !.underlying_product = FALSE]

(* ---------------- print_solution3 ---------------- *)

\* InsertByKey with the name (x[0]) as the sort key
RECURSIVE InsertByName(_, _)
InsertByName(x, s) ==
  IF s = <<>> THEN <<x>>
  ELSE IF StrLess(x[1], Head(s)[1]) THEN <<x>> \o s
  ELSE <<Head(s)>> \o InsertByName(x, Tail(s))

\* sorted() is stable: x goes behind every item whose key is not greater
RECURSIVE InsertByKey(_, _)
InsertByKey(x, s) ==
  IF s = <<>> THEN <<x>>
  ELSE IF StrLess(x[2], Head(s)[2]) THEN <<x>> \o s
  ELSE <<Head(s)>> \o InsertByKey(x, Tail(s))

\* sorted(dNameExpiration.items(), key=lambda x: x[1])   (line 189)
RECURSIVE SortedByExpiration(_)
SortedByExpiration(items) ==
  IF items = <<>> THEN <<>>
  ELSE InsertByKey(items[Len(items)],
                   SortedByExpiration(SubSeq(items, 1, Len(items) - 1)))

\* sortedExpirationName[:4]   (line 191)
FirstN(s, n) == SubSeq(s, 1, IF Len(s) < n THEN Len(s) ELSE n)

\* what print_solution3 prints (lines 188-192)
Solution3(d) == FirstN(SortedByExpiration(d), TopN)

(* ---------------- state ---------------- *)

VARIABLES
  source,              \* "ok", "ftp_error" (urlretrieve fails), "no_file" (secdef.DAT
                       \* is missing), "no_access" (secdef.DAT is not readable)
  downloaded,          \* what download_secdef_zipfile returned, "none" if it has not
  calls,               \* number of calls of parse_secdef_file so far
  secdefFile,          \* the lines of secdef.DAT
  pc,                  \* position in main / parse_secdef_file
  lineNo,              \* number of lines the for loop of line 120 has taken
  field,               \* line.split(SOH) of the current line
  idx,                 \* position of the next data in field
  futures, assetGE, nolegs, underlying_product,
  product_complex, names, expiration,
  d167, d462, dNameExpiration,
  exc,                 \* the exception raised, "none" if none
  ret,                 \* what parse_secdef_file returned, "none" if it has not
  printed,             \* how many of print_solution1..3 have run
  solution3,           \* the pairs print_solution3 printed
  base                 \* dictionaries and value locals when the current line was taken

vars ==
  <<downloaded, calls, source, secdefFile, pc, lineNo, field, idx, futures, assetGE, nolegs,
    underlying_product, product_complex, names, expiration, d167, d462,
    dNameExpiration, exc, ret, printed, solution3, base>>

CurL == Locals(futures, assetGE, nolegs, underlying_product,
               product_complex, names, expiration)
CurG == Globals(d167, d462, dNameExpiration)

Snapshot(L, G) ==
  [d167 |-> G.d167, d462 |-> G.d462, dNameExpiration |-> G.dNameExpiration,
   product_complex |-> L.product_complex, names |-> L.names,
   expiration |-> L.expiration]

\* lines 54-73
Seed167 == [k \in SecurityTypes |-> 0]
Seed462 == [k \in ProductComplexes |-> 0]

InitCommon ==
  /\ pc = "main"
  /\ lineNo = 0
  /\ field = <<>>
  /\ idx = 1
  /\ futures = FALSE /\ assetGE = FALSE /\ nolegs = FALSE
  /\ underlying_product = FALSE
  /\ product_complex = Unbound /\ names = Unbound /\ expiration = Unbound
  /\ d167 = Seed167
  /\ d462 = Seed462
  /\ dNameExpiration = <<>>
  /\ exc = "none"
  /\ ret = "none"
  /\ printed = 0
  /\ solution3 = <<>>
  /\ base = Snapshot(CurL, CurG)
  /\ downloaded = "none"
  /\ calls = 0

Init ==
  /\ \/ source = "ok" /\ secdefFile \in Feeds
     \/ source \in {"ftp_error", "no_file", "no_access"} /\ secdefFile = <<>>
  /\ InitCommon

SetL(L) ==
  /\ futures' = L.futures
  /\ assetGE' = L.assetGE
  /\ nolegs' = L.nolegs
  /\ underlying_product' = L.underlying_product
  /\ product_complex' = L.product_complex
  /\ names' = L.names
  /\ expiration' = L.expiration

SetG(G) ==
  /\ d167' = G.d167
  /\ d462' = G.d462
  /\ dNameExpiration' = G.dNameExpiration

\* how an exception raised inside the try block of parse_secdef_file ends it:
\* KeyError is caught (lines 152-154), anything else leaves main
Raised(e) ==
  /\ exc' = e
  /\ IF e = "KeyError"
       THEN pc' = "parse_failed" /\ ret' = "False"
       ELSE pc' = "crashed" /\ ret' = ret

(* ---------------- main and parse_secdef_file ---------------- *)

\* main, line 206, and download_secdef_zipfile (lines 82-105)
Download ==
  /\ pc = "main"
  /\ IF source = "ftp_error"
       THEN downloaded' = "False" /\ pc' = "exit"
       ELSE downloaded' = "True" /\ pc' = "open"
  /\ UNCHANGED <<calls, source, secdefFile, lineNo, field, idx, futures, assetGE,
                 nolegs, underlying_product, product_complex, names,
                 expiration, d167, d462, dNameExpiration, exc, ret, printed,
                 solution3, base>>

\* what open(secdef_filepath, 'r') raises (line 119)
OpenError ==
  CASE source = "no_file" -> "FileNotFoundError"
    [] source = "no_access" -> "PermissionError"
    [] OTHER -> "none"

\* lines 115-119: parse_secdef_file is entered and opens the file; lines
\* 149-151 when the file is missing; any other error of open is not caught
OpenFile ==
  /\ pc = "open"
  /\ calls' = calls + 1
  /\ IF OpenError = "none"
       THEN pc' = "for_line" /\ ret' = ret /\ exc' = exc
       ELSE /\ exc' = OpenError
            /\ IF OpenError = "FileNotFoundError"
                 THEN pc' = "parse_failed" /\ ret' = "False"
                 ELSE pc' = "crashed" /\ ret' = ret
  /\ UNCHANGED <<downloaded, source, secdefFile, lineNo, field, idx, futures, assetGE,
                 nolegs, underlying_product, product_complex, names,
                 expiration, d167, d462, dNameExpiration, printed, solution3,
                 base>>

\* lines 120-125: take the next line, split it, reset the flags
NextLine ==
  /\ pc = "for_line"
  /\ lineNo < Len(secdefFile)
  /\ lineNo' = lineNo + 1
  /\ field' = Split(secdefFile[lineNo + 1], SOH)
  /\ idx' = 1
  /\ SetL(StartRecord(CurL))
  /\ base' = Snapshot(CurL, CurG)
  /\ pc' = "for_data"
  /\ UNCHANGED <<downloaded, calls, source, secdefFile, d167, d462, dNameExpiration, exc, ret,
                 printed, solution3>>

\* lines 126-141: examine one field
ScanField ==
  /\ pc = "for_data"
  /\ idx <= Len(field)
  /\ LET r == ScanData(CurL, CurG, field[idx])
     IN  /\ SetL(r.L)
         /\ SetG(r.G)
         /\ IF r.exc = "none"
              THEN idx' = idx + 1 /\ pc' = pc /\ exc' = exc /\ ret' = ret
              ELSE idx' = idx /\ Raised(r.exc)
  /\ UNCHANGED <<downloaded, calls, source, secdefFile, lineNo, field, printed, solution3, base>>

\* lines 142-147: the updates after the field loop
UpdateAggregates ==
  /\ pc = "for_data"
  /\ idx > Len(field)
  /\ LET r == UpdateRecord(CurL, CurG)
     IN  /\ SetL(r.L)
         /\ SetG(r.G)
         /\ IF r.exc = "none"
              THEN pc' = "for_line" /\ exc' = exc /\ ret' = ret
              ELSE Raised(r.exc)
  /\ UNCHANGED <<downloaded, calls, source, secdefFile, lineNo, field, idx, printed, solution3,
                 base>>

\* line 148
ReturnTrue ==
  /\ pc = "for_line"
  /\ lineNo = Len(secdefFile)
  /\ ret' = "True"
  /\ pc' = "print1"
  /\ UNCHANGED <<downloaded, calls, source, secdefFile, lineNo, field, idx, futures, assetGE,
                 nolegs, underlying_product, product_complex, names,
                 expiration, d167, d462, dNameExpiration, exc, printed,
                 solution3, base>>

\* main, lines 211-212
ParseFailed ==
  /\ pc = "parse_failed"
  /\ pc' = "exit"
  /\ UNCHANGED <<downloaded, calls, source, secdefFile, lineNo, field, idx, futures, assetGE,
                 nolegs, underlying_product, product_complex, names,
                 expiration, d167, d462, dNameExpiration, exc, ret, printed,
                 solution3, base>>

\* lines 163-166
PrintSolution1 ==
  /\ pc = "print1"
  /\ printed' = printed + 1
  /\ pc' = "print2"
  /\ UNCHANGED <<downloaded, calls, source, secdefFile, lineNo, field, idx, futures, assetGE,
                 nolegs, underlying_product, product_complex, names,
                 expiration, d167, d462, dNameExpiration, exc, ret, solution3,
                 base>>

\* lines 175-178
PrintSolution2 ==
  /\ pc = "print2"
  /\ printed' = printed + 1
  /\ pc' = "print3"
  /\ UNCHANGED <<downloaded, calls, source, secdefFile, lineNo, field, idx, futures, assetGE,
                 nolegs, underlying_product, product_complex, names,
                 expiration, d167, d462, dNameExpiration, exc, ret, solution3,
                 base>>

\* lines 188-192
PrintSolution3 ==
  /\ pc = "print3"
  /\ solution3' = Solution3(dNameExpiration)
  /\ printed' = printed + 1
  /\ pc' = "exit"
  /\ UNCHANGED <<downloaded, calls, source, secdefFile, lineNo, field, idx, futures, assetGE,
                 nolegs, underlying_product, product_complex, names,
                 expiration, d167, d462, dNameExpiration, exc, ret, base>>

Next ==
  \/ Download
  \/ OpenFile
  \/ NextLine
  \/ ScanField
  \/ UpdateAggregates
  \/ ReturnTrue
  \/ ParseFailed
  \/ PrintSolution1
  \/ PrintSolution2
  \/ PrintSolution3

Spec == Init /\ [][Next]_vars

TypeOK ==
  /\ pc \in {"main", "open", "for_line", "for_data", "parse_failed",
             "crashed", "print1", "print2", "print3", "exit"}
  /\ DOMAIN d167 = SecurityTypes
  /\ DOMAIN d462 = ProductComplexes
  /\ printed \in 0..3

(* ---------------- the pass as a function of the file ---------------- *)

\* the field loop of one line, stopping at the first exception
RECURSIVE ScanAll(_, _, _)
ScanAll(L, G, toks) ==
  IF toks = <<>> THEN Outcome(L, G, "none")
  ELSE LET r == ScanData(L, G, Head(toks))
       IN  IF r.exc # "none" THEN r ELSE ScanAll(r.L, r.G, Tail(toks))

\* lines 121-147 for an already split line
RunTokens(L, G, toks) ==
  LET r == ScanAll(StartRecord(L), G, toks)
  IN  IF r.exc # "none" THEN r ELSE UpdateRecord(r.L, r.G)

\* lines 120-147 for a sequence of lines, stopping at the first exception
RECURSIVE RunPass(_, _, _)
RunPass(L, G, file) ==
  IF file = <<>> THEN Outcome(L, G, "none")
  ELSE LET r == RunTokens(L, G, Split(Head(file), SOH))
       IN  IF r.exc # "none" THEN r ELSE RunPass(r.L, r.G, Tail(file))

FreshL == Locals(FALSE, FALSE, FALSE, FALSE, Unbound, Unbound, Unbound)
FreshG == Globals(Seed167, Seed462, <<>>)

\* the pass over a file, started from freshly seeded dictionaries
ParseResult(file) == RunPass(FreshL, FreshG, file)

(* ---------------- print_solution3 on larger dictionaries ---------------- *)

\* the state in which parse_secdef_file returns True for a file it parses
\* without an exception
ReturnedState(file) ==
  LET n == Len(file)
      q == ParseResult(SubSeq(file, 1, n - 1))
      r == IF n = 0 THEN q ELSE RunPass(q.L, q.G, <<file[n]>>)
      toks == IF n = 0 THEN <<>> ELSE Split(file[n], SOH)
  IN  [lineNo |-> n, field |-> toks, idx |-> Len(toks) + 1,
       L |-> r.L, G |-> r.G, base |-> Snapshot(q.L, q.G)]

Digits == <<"9", "8", "7", "6", "5", "4", "3", "2", "1", "0">>
\* the name of the i-th instrument of a file of GE futures
NameOf(i) == <<"G", "E", "H", Digits[i]>>
ExpirationPool == {E201812, E201903, E201906, E3}

\* a file of GE futures without legs, one per expiration of exps
FuturesFile(exps) ==
  [i \in 1..Len(exps) |->
     Rec(<<fFUT, fGE, Field(NAMES_TAG, NameOf(i)), Field(EXPIRATION_TAG, exps[i])>>)]

\* main after parse_secdef_file returned True on a file of up to MaxEntries
\* GE futures, about to print the three solutions
InitQ3 ==
  \E exps \in SeqsUpTo(ExpirationPool, MaxEntries) :
    \E st \in {ReturnedState(FuturesFile(exps))} :
        /\ source = "ok"
        /\ secdefFile = FuturesFile(exps)
        /\ pc = "print1"
        /\ lineNo = st.lineNo
        /\ field = st.field
        /\ idx = st.idx
        /\ futures = st.L.futures
        /\ assetGE = st.L.assetGE
        /\ nolegs = st.L.nolegs
        /\ underlying_product = st.L.underlying_product
        /\ product_complex = st.L.product_complex
        /\ names = st.L.names
        /\ expiration = st.L.expiration
        /\ d167 = st.G.d167
        /\ d462 = st.G.d462
        /\ dNameExpiration = st.G.dNameExpiration
        /\ exc = "none"
        /\ ret = "True"
        /\ printed = 0
        /\ solution3 = <<>>
        /\ base = st.base
        /\ downloaded = "True"
        /\ calls = 1

NextQ3 ==
  \/ PrintSolution1
  \/ PrintSolution2
  \/ PrintSolution3

SpecQ3 == InitQ3 /\ [][NextQ3]_vars

(* ---------------- parse_secdef_file called again ---------------- *)

\* a further call of parse_secdef_file after one that returned True: the
\* locals of the new call are fresh, the module-level dictionaries
\* (lines 54-73) are the ones the earlier call left
ParseAgain ==
  /\ pc = "print1"
  /\ calls < MaxCalls
  /\ pc' = "open"
  /\ lineNo' = 0
  /\ field' = <<>>
  /\ idx' = 1
  /\ SetL(FreshL)
  /\ ret' = "none"
  /\ base' = Snapshot(FreshL, CurG)
  /\ UNCHANGED <<downloaded, calls, source, secdefFile, d167, d462,
                 dNameExpiration, exc, printed, solution3>>

NextTwice ==
  \/ Next
  \/ ParseAgain

SpecTwice == Init /\ [][NextTwice]_vars

(* ---------------- files of GE futures with recurring names ---------------- *)

\* GE futures without legs: two names, two expirations
FuturesLines ==
  {Rec(<<fFUT, fGE, Field(NAMES_TAG, n), Field(EXPIRATION_TAG, e)>>) :
     n \in {GEH9, GEZ8}, e \in {E201812, E201903}}

InitFutures ==
  /\ \/ source = "ok" /\ secdefFile \in SeqsUpTo(FuturesLines, MaxFutures)
     \/ source \in {"ftp_error", "no_file", "no_access"} /\ secdefFile = <<>>
  /\ InitCommon

SpecFutures == InitFutures /\ [][Next]_vars

(* ---------------- vocabulary of the properties ---------------- *)

\* the for loop over the fields of the current line is running
Scanning == pc = "for_data"
\* some field of the current line has not been examined yet
FieldsLeft == pc = "for_data" /\ idx <= Len(field)
\* the current line has been dealt with: updated, or ended by an exception
RecordDone == lineNo >= 1 /\ pc # "for_data"
\* parse_secdef_file is over, by return or by exception
PassOver ==
  source = "ok" /\ pc \in {"parse_failed", "crashed", "print1", "print2", "print3", "exit"}

Positions(tag) == {i \in 1..Len(field) : Tag(field[i]) = tag}
HasToken(tok) == \E i \in 1..Len(field) : field[i] = tok
BaseG == Globals(base.d167, base.d462, base.dNameExpiration)
BaseL == Locals(FALSE, FALSE, FALSE, FALSE,
                base.product_complex, base.names, base.expiration)

\* the actions agree with the pass computed as a function of the file
PassAgrees ==
  PassOver => /\ ParseResult(secdefFile).G = CurG
              /\ ParseResult(secdefFile).exc = exc

\* the state in which the pass returns True is the one ReturnedState computes
ReturnedStateAgrees ==
  pc = "print1" =>
    LET st == ReturnedState(secdefFile)
    IN  /\ lineNo = st.lineNo /\ field = st.field /\ idx = st.idx
        /\ CurL = st.L /\ CurG = st.G /\ base = st.base
        /\ exc = "none" /\ ret = "True" /\ printed = 0 /\ solution3 = <<>>
        /\ downloaded = "True" /\ calls = 1

(* ---------------- C1 ---------------- *)

\* C1: processing one record, whatever tags it repeats, raises the total of
\* d167 by at most 1 and the total of d462 by at most 1.
C1_AtMostOneIncrement ==
  lineNo >= 1 =>
    /\ Total(d167) <= Total(base.d167) + 1
    /\ Total(d462) <= Total(base.d462) + 1

(* ---------------- C2 ---------------- *)

\* C2: a record whose tag-167 value is not a seeded code does not abort the
\* pass: the pass never ends on such a field while lines are still unread.
C2_UnrecognizedTypeDoesNotAbort ==
  ~ ( /\ pc \in {"parse_failed", "exit"}
      /\ exc = "KeyError"
      /\ idx <= Len(field)
      /\ Tag(field[idx]) = SECURITY_TYPE_TAG
      /\ lineNo < Len(secdefFile) )

(* ---------------- C3 ---------------- *)

Reordered(file) ==
  {[i \in 1..Len(file) |-> file[p[i]]] : p \in Permutations(1..Len(file))}

\* C3: every reordering of the lines of the file ends, from freshly seeded
\* dictionaries, with the same d167 and the same d462.
C3_OrderIndependentCounts ==
  PassOver =>
    \A f \in Reordered(secdefFile) :
      /\ ParseResult(f).G.d167 = d167
      /\ ParseResult(f).G.d462 = d462

(* ---------------- C4 ---------------- *)

\* C4 as stated: while a field of the current record is still unexamined,
\* d167, d462 and dNameExpiration equal their values at the start of its scan.
C4_NoAggregateChangesDuringScan ==
  FieldsLeft => CurG = BaseG

\* the tag-167 fields among the fields examined so far that carry the code k
Counted167(k) ==
  {i \in 1..(idx - 1) :
     Tag(field[i]) = SECURITY_TYPE_TAG /\ HasValue(field[i]) /\ Value(field[i]) = k}

\* C4 amended: during the scan of a record d462 and dNameExpiration keep the
\* values they had when the scan began, and they change only in the step after
\* the last field; d167 has already been incremented once for every tag-167
\* field examined so far.
C4_OnlyD167ChangesDuringScan ==
  /\ [](Scanning =>
          /\ d462 = base.d462
          /\ dNameExpiration = base.dNameExpiration
          /\ \A k \in SecurityTypes :
               d167[k] = base.d167[k] + Cardinality(Counted167(k)))
  /\ [][(d462' # d462 \/ dNameExpiration' # dNameExpiration)
          => (pc = "for_data" /\ idx > Len(field))]_vars

\* a record whose tag-167 and tag-462 fields were examined and has fields left
C4_Witness ==
  /\ FieldsLeft
  /\ futures /\ underlying_product
  /\ d167 # base.d167

(* ---------------- C5 ---------------- *)

\* C5: a token with tag 167, 462, 55 or 200 and no '=' is skipped:
\* parse_secdef_file never terminates abnormally because of it.
C5_MalformedFieldSkipped ==
  ~ ( /\ pc = "crashed"
      /\ exc = "IndexError"
      /\ ~HasValue(field[idx])
      /\ Tag(field[idx]) \in {SECURITY_TYPE_TAG, UNDERLYING_PRODUCT_TAG,
                              NAMES_TAG, EXPIRATION_TAG} )

(* ---------------- C6 ---------------- *)

\* the record has a field 167=FUT
HasFuturesField ==
  \E i \in Positions(SECURITY_TYPE_TAG) :
    HasValue(field[i]) /\ Value(field[i]) = FUTURES

\* the record has exactly one tag-55 field and one tag-200 field, both with a value
OneNameOneExpiration ==
  /\ Cardinality(Positions(NAMES_TAG)) = 1
  /\ Cardinality(Positions(EXPIRATION_TAG)) = 1
  /\ \A i \in Positions(NAMES_TAG) \cup Positions(EXPIRATION_TAG) : HasValue(field[i])

RecordName == Value(field[CHOOSE i \in Positions(NAMES_TAG) : TRUE])
RecordExpiration == Value(field[CHOOSE i \in Positions(EXPIRATION_TAG) : TRUE])

\* 167=FUT, the token 6937=GE, and no field with tag 555
QualifiesForQ3 ==
  HasFuturesField /\ HasToken(ASSET_GE) /\ Positions(NOLEGS_TAG) = {}

\* C6: a record with one name field and one expiration field writes
\* dNameExpiration iff it has 167=FUT, the token 6937=GE and no tag 555; the
\* write sets the entry of its name to its expiration and nothing else.
C6_WrittenIffQualifies ==
  (RecordDone /\ OneNameOneExpiration) =>
    dNameExpiration =
      IF QualifiesForQ3
        THEN SetItem(base.dNameExpiration, RecordName, RecordExpiration)
        ELSE base.dNameExpiration

(* ---------------- C7 ---------------- *)

\* C7: a futures record with the token 6937=GE and a field 555=v, whatever v
\* is, leaves dNameExpiration as it was when the record's scan began.
C7_LegsFieldSuppressesQ3 ==
  ( /\ lineNo >= 1
    /\ HasFuturesField
    /\ HasToken(ASSET_GE)
    /\ \E i \in Positions(NOLEGS_TAG) : HasValue(field[i]) )
  => dNameExpiration = base.dNameExpiration

\* the record 167=FUT, 6937=GE, 55=.., 200=.., 555=0 has been processed
C7_Witness ==
  /\ pc = "for_line" /\ lineNo >= 1
  /\ futures /\ assetGE /\ nolegs
  /\ HasToken(fLegs0)
  /\ OneNameOneExpiration

(* ---------------- C8 ---------------- *)

\* every security-type and product-complex code of the record is a seeded key
RecognizedCodes ==
  /\ \A i \in Positions(SECURITY_TYPE_TAG) :
       HasValue(field[i]) => Value(field[i]) \in SecurityTypes
  /\ \A i \in Positions(UNDERLYING_PRODUCT_TAG) :
       HasValue(field[i]) => Value(field[i]) \in ProductComplexes

\* C8: a record with recognized codes increments one d462 count by exactly 1
\* iff it has 167=FUT and a tag-462 field, in either order; a record
\* without 167=FUT leaves d462 and dNameExpiration unchanged.
C8_ProductComplexIffFutures ==
  (RecordDone /\ RecognizedCodes) =>
    /\ IF HasFuturesField /\ Positions(UNDERLYING_PRODUCT_TAG) # {}
         THEN \E i \in Positions(UNDERLYING_PRODUCT_TAG) :
                /\ HasValue(field[i])
                /\ d462 = [base.d462 EXCEPT ![Value(field[i])] = @ + 1]
         ELSE d462 = base.d462
    /\ ~HasFuturesField => dNameExpiration = base.dNameExpiration

(* ---------------- C9 ---------------- *)

Min(a, b) == IF a < b THEN a ELSE b

Items(s) == {s[i] : i \in 1..Len(s)}

\* C9: print_solution3 prints min(4, |dNameExpiration|) distinct items of
\* dNameExpiration, in non-decreasing order of expiration under str
\* comparison, and no item left out has a smaller expiration than one printed.
C9_EarliestFour ==
  (pc = "exit" /\ printed = 3) =>
    /\ Len(solution3) = Min(4, Len(dNameExpiration))
    /\ Items(solution3) \subseteq Items(dNameExpiration)
    /\ Cardinality(Items(solution3)) = Len(solution3)
    /\ \A i \in 1..(Len(solution3) - 1) :
         ~StrLess(solution3[i + 1][2], solution3[i][2])
    /\ \A x \in Items(dNameExpiration) \ Items(solution3) :
         \A y \in Items(solution3) : ~StrLess(x[2], y[2])

\* five entries were passed, four printed, with a tie and with an entry left out
C9_Witness ==
  /\ pc = "exit" /\ printed = 3
  /\ Len(dNameExpiration) = 5
  /\ Len(solution3) = 4
  /\ solution3[1][2] = solution3[2][2]
  /\ solution3 # SubSeq(dNameExpiration, 1, 4)

(* ---------------- C10 ---------------- *)

AssetPositions == {i \in 1..Len(field) : field[i] = ASSET_GE}

Remove(s, i) == SubSeq(s, 1, i - 1) \o SubSeq(s, i + 1, Len(s))

\* C10: a record with the token 6937=GE twice or more ends with the same three
\* dictionaries, and the same outcome, as the record with one occurrence
\* removed; and once assetGE is set, no later field of the record clears it.
C10_AssetFlagIdempotent ==
  /\ []((RecordDone /\ Cardinality(AssetPositions) >= 2) =>
          \A i \in AssetPositions :
            LET r == RunTokens(BaseL, BaseG, Remove(field, i))
            IN  /\ r.G = CurG
                /\ r.exc = exc)
  /\ [][(Scanning /\ assetGE) => assetGE']_vars

\* a futures record with the token twice has been processed and has written
C10_Witness ==
  /\ pc = "for_line" /\ lineNo >= 1
  /\ Cardinality(AssetPositions) >= 2
  /\ futures /\ assetGE
  /\ dNameExpiration # base.dNameExpiration

(* ---------------- C11 ---------------- *)

\* the value of the first field of the current record with this tag
FirstValue(tag) ==
  Value(field[CHOOSE i \in Positions(tag) : \A j \in Positions(tag) : i <= j])

\* the record has been processed to the end without an exception
RecordUpdated == pc = "for_line" /\ lineNo >= 1

\* every field with one of the value tags carries a value
ValuesPresent ==
  \A i \in Positions(UNDERLYING_PRODUCT_TAG) \cup Positions(NAMES_TAG)
           \cup Positions(EXPIRATION_TAG) : HasValue(field[i])

\* C11: when a record has several fields with tag 462, 55 or 200, the d462
\* key it increments, the dNameExpiration key it sets and the expiration it
\* stores are the values of the first such field.
C11_FirstMatchWins ==
  (RecordUpdated /\ ValuesPresent) =>
    /\ d462 # base.d462 =>
         d462 = [base.d462 EXCEPT ![FirstValue(UNDERLYING_PRODUCT_TAG)] = @ + 1]
    /\ ( /\ dNameExpiration # base.dNameExpiration
         /\ Positions(NAMES_TAG) # {}
         /\ Positions(EXPIRATION_TAG) # {} ) =>
         dNameExpiration =
           SetItem(base.dNameExpiration, FirstValue(NAMES_TAG),
                   FirstValue(EXPIRATION_TAG))

(* ---------------- C12 ---------------- *)

\* the line without its line terminator
StripNL(line) ==
  IF line # <<>> /\ line[Len(line)] = NL THEN SubSeq(line, 1, Len(line) - 1)
  ELSE line

\* whether the last field of the line is followed by SOH
EndsWithSOH(line) ==
  StripNL(line) # <<>> /\ StripNL(line)[Len(StripNL(line))] = SOH

\* the fields of the record the line carries
LineFields(line) ==
  LET toks == Split(StripNL(line), SOH)
  IN  IF EndsWithSOH(line) THEN SubSeq(toks, 1, Len(toks) - 1) ELSE toks

TagsOfInterest ==
  {SECURITY_TYPE_TAG, UNDERLYING_PRODUCT_TAG, <<"6", "9", "3", "7">>,
   NOLEGS_TAG, NAMES_TAG, EXPIRATION_TAG}

\* every field is tag=value and every tag of interest occurs at most once
WellFormedUnique(fs) ==
  /\ \A i \in 1..Len(fs) : HasValue(fs[i])
  /\ \A t \in TagsOfInterest :
       Cardinality({i \in 1..Len(fs) : Tag(fs[i]) = t}) <= 1

\* the same fields in another order, terminated the way the line is
Permuted(line) ==
  LET fs == LineFields(line)
  IN  {IF EndsWithSOH(line) THEN Rec([i \in 1..Len(fs) |-> fs[p[i]]])
                            ELSE RecBare([i \in 1..Len(fs) |-> fs[p[i]]]) :
         p \in Permutations(1..Len(fs))}

\* C12: for a line of well-formed fields in which every tag of interest occurs
\* at most once, every permutation of its fields, whichever field comes last
\* before the line terminator, makes the same updates to the dictionaries.
C12_FieldOrderIndependent ==
  (RecordDone /\ WellFormedUnique(LineFields(secdefFile[lineNo]))) =>
    \A line \in Permuted(secdefFile[lineNo]) :
      RunTokens(BaseL, BaseG, Split(line, SOH)).G = CurG

(* ---------------- C13 ---------------- *)

\* C13: when the pass met an unrecognized security-type or product-complex
\* code, main has printed all three solutions by the time it exits.
C13_SolutionsPrintedAfterParseIssue ==
  (pc = "exit" /\ exc = "KeyError") => printed = 3

(* ---------------- C14 ---------------- *)

\* C14: when the download fails or secdef.DAT cannot be opened, the failing
\* function returns False, no exception escapes, the three dictionaries stay
\* as seeded and no solution is printed.
C14_SourceUnavailable ==
  source # "ok" =>
    /\ pc # "crashed"
    /\ (source = "ftp_error" /\ pc # "main") => (downloaded = "False" /\ calls = 0)
    /\ (source # "ftp_error" /\ calls >= 1) => ret = "False"
    /\ CurG = FreshG
    /\ printed = 0

(* ---------------- C15 ---------------- *)

\* the name line k of the file writes to dNameExpiration, Unbound if it writes none
WriterOf(k) ==
  LET r == ParseResult(SubSeq(secdefFile, 1, k))
  IN  IF r.exc = "none" /\ r.L.futures /\ r.L.assetGE /\ ~r.L.nolegs
        THEN r.L.names ELSE Unbound

\* the first line that writes the name n
FirstLine(n) ==
  CHOOSE k \in 1..Len(secdefFile) :
    WriterOf(k) = n /\ \A j \in 1..(k - 1) : WriterOf(j) # n

\* C15: pairs with equal expirations are printed by print_solution3 in the
\* order in which their names were first written during the pass.
C15_TiesInInsertionOrder ==
  (pc = "exit" /\ printed = 3) =>
    \A i, j \in 1..Len(solution3) :
      (i < j /\ solution3[i][2] = solution3[j][2]) =>
        FirstLine(solution3[i][1]) < FirstLine(solution3[j][1])

\* two names tie, and the one inserted first was overwritten by a later line
C15_Witness ==
  /\ pc = "exit" /\ printed = 3
  /\ Len(secdefFile) = 3
  /\ Len(solution3) = 2
  /\ solution3[1][2] = solution3[2][2]
  /\ WriterOf(3) = solution3[1][1]
  /\ WriterOf(1) = solution3[1][1]

(* ---------------- C16 ---------------- *)

\* C16: when the last of MaxCalls calls of parse_secdef_file over the same
\* file returns True, d167, d462 and dNameExpiration are what a single
\* pass from freshly seeded dictionaries gives.
C16_SecondRunSameResult ==
  (pc = "print1" /\ calls = MaxCalls) => CurG = ParseResult(secdefFile).G

(* ---------------- C17 ---------------- *)

\* C17: a record with 167=FUT, the token 6937=GE and no tag 555 that has been
\* updated left in dNameExpiration an entry whose name is the value of one of
\* its own tag-55 fields and whose expiration is the value of one of its own
\* tag-200 fields; and the pass never ends with an unbound name or expiration.
C17_EntryFromTriggeringRecord ==
  /\ exc # "UnboundLocalError"
  /\ (RecordUpdated /\ QualifiesForQ3) =>
       \E i \in Positions(NAMES_TAG), j \in Positions(EXPIRATION_TAG) :
         /\ HasValue(field[i]) /\ HasValue(field[j])
         /\ dNameExpiration =
              SetItem(base.dNameExpiration, Value(field[i]), Value(field[j]))

(* ---------------- C18 ---------------- *)

\* parse_secdef_file returned False on an unrecognized code
AbortedOnKey == ret = "False" /\ exc = "KeyError"
\* the dictionaries after the records that precede the current one
Preceding == ParseResult(SubSeq(secdefFile, 1, lineNo - 1)).G

\* C18: when parse_secdef_file returns False on an unrecognized code, d167,
\* d462 and dNameExpiration are exactly the result of the records that
\* precede the offending record.
C18_AbortAtomic ==
  AbortedOnKey => CurG = Preceding

\* C18 amended: when parse_secdef_file returns False on an unrecognized code,
\* d462 and dNameExpiration are the result of the preceding records, and
\* d167 is that result plus one for every tag-167 field of the offending
\* record that was examined before the exception.
C18_AbortKeepsD462AndNames ==
  AbortedOnKey =>
    /\ d462 = Preceding.d462
    /\ dNameExpiration = Preceding.dNameExpiration
    /\ \A k \in DOMAIN d167 :
         d167[k] = Preceding.d167[k] + Cardinality(Counted167(k))

\* the abort came in the second record, after a first record that counted a
\* product complex, and the offending record had already been counted in d167
C18_Witness ==
  /\ AbortedOnKey
  /\ lineNo = 2
  /\ Preceding.d462 # Seed462
  /\ d167 # Preceding.d167

(* ---------------- C19 ---------------- *)

\* C19: in every state the keys of d167 are FUT, OOF, MLEG, IRS, FXSPOT and
\* the keys of d462 are 2, 4, 5, 12, 14, 15, 16, 17, every count is a
\* natural number, and no step makes a count smaller.
C19_KeysFixedCountsGrow ==
  /\ [](/\ DOMAIN d167 = { <<"F", "U", "T">>, <<"O", "O", "F">>,
                           <<"M", "L", "E", "G">>, <<"I", "R", "S">>,
                           <<"F", "X", "S", "P", "O", "T">> }
        /\ DOMAIN d462 = { <<"2">>, <<"4">>, <<"5">>, <<"1", "2">>,
                           <<"1", "4">>, <<"1", "5">>, <<"1", "6">>,
                           <<"1", "7">> }
        /\ \A k \in DOMAIN d167 : d167[k] \in Nat
        /\ \A k \in DOMAIN d462 : d462[k] \in Nat)
  /\ [][/\ \A k \in DOMAIN d167 : d167'[k] >= d167[k]
        /\ \A k \in DOMAIN d462 : d462'[k] >= d462[k]]_vars

\* the program ended after an abort on an unrecognized code, with counts in
\* both mappings
C19_Witness ==
  /\ pc = "exit" /\ exc = "KeyError"
  /\ Total(d167) >= 2
  /\ Total(d462) >= 1

(* ---------------- C20 ---------------- *)

\* C20: between two records and once the pass is over, by return or by
\* exception, the sum of the counts of d462 and the number of entries of
\* dNameExpiration are both at most d167['FUT'].
C20_BoundedByFuturesCount ==
  (pc = "for_line" \/ PassOver) =>
    /\ Total(d462) <= d167[FUTURES]
    /\ Len(dNameExpiration) <= d167[FUTURES]

\* the pass aborted in its second record with both bounds reached
C20_Witness ==
  /\ pc = "parse_failed" /\ exc = "KeyError"
  /\ lineNo = 2
  /\ Total(d462) = d167[FUTURES]
  /\ Len(dNameExpiration) = d167[FUTURES]
  /\ d167[FUTURES] >= 1

====
